---- MODULE Spec2Model ----
(***************************************************************************)
(* Model of the Sonar Scanner Runner: the HTTP backend (backend/server.py) *)
(* with its job table active_scans and its background scan threads, and    *)
(* the scan script (backend/scripts/run_sonar_scan.py) each thread runs as *)
(* a child process.                                                        *)
(*                                                                         *)
(* Strings that the code formats, trims or compares are sequences of       *)
(* one-character strings.  The child process writes its lines to a pipe    *)
(* the scan thread reads line by line: one step of the child and the       *)
(* append of the line it printed are one action (a pipe of capacity zero). *)
(* The child's stdout keeps what each line says; the server never looks    *)
(* into a line, and the job table keeps of each line only whether the      *)
(* script printed it or the exception handler appended it.                 *)
(***************************************************************************)
EXTENDS Integers, Sequences, FiniteSets, TLC

\* ---------------------------------------------------------------- bounds
\* Accepted submissions (background threads started).
MaxScans == 2
\* The clock runs over the seconds 0 .. MaxTime.
MaxTime == 1

\* ------------------------------------------------------------- constants
\* Python's None, and a value that is set: an optional value is a sequence
\* of length at most one.
None == <<>>
Some(x) == <<x>>
\* datetime.now().isoformat(): a timestamp to the microsecond, which the
\* clock of whole seconds does not determine; what it reads plays no part.
isoformat == "timestamp"
\* A key the posted JSON object does not have.
Missing == <<"(missing)">>
\* A request body that is not JSON.
BadJson == [invalid |-> TRUE]
NoRequest == [op |-> "none"]
NoResponse == [code |-> 0, status |-> "none"]
NoData == [status |-> "none"]
NoProc == [stage |-> "none"]
\* A process that exited and was waited for.
Reaped == [stage |-> "reaped"]
NoDict == [status |-> "none"]

\* ---------------------------------------------------------------- strings
Whitespace == {" "}

RECURSIVE lstrip(_)
lstrip(s) ==
    IF s # <<>> /\ Head(s) \in Whitespace THEN lstrip(Tail(s)) ELSE s

RECURSIVE rstrip(_)
rstrip(s) ==
    IF s # <<>> /\ s[Len(s)] \in Whitespace
    THEN rstrip(SubSeq(s, 1, Len(s) - 1))
    ELSE s

\* str.strip()
strip(s) == rstrip(lstrip(s))

DigitChar(d) == <<"0", "1", "2", "3", "4", "5", "6", "7", "8", "9">>[d + 1]

\* str(n) of a natural number: its decimal digits.
RECURSIVE str(_)
str(n) == IF n < 10 THEN <<DigitChar(n)>> ELSE str(n \div 10) \o <<DigitChar(n % 10)>>

\* dict.get(key, ''): the value of a key of the posted JSON object, '' when absent.
get(data, key) == IF data[key] = Missing THEN <<>> ELSE data[key]

IsPrefix(s, t) == Len(s) <= Len(t) /\ SubSeq(t, 1, Len(s)) = s

\* ----------------------------------------------------------------- inputs
Body(repo, branch, version) ==
    [repository_name |-> repo, branch_name |-> branch, release_version |-> version]

\* The bodies a client may post: not JSON; complete, as typed and padded with
\* blanks; and with a field absent (Missing), empty or blank.
ScanBodies ==
    {BadJson,
     Body(<<"r">>, <<"b">>, <<"1">>),
     Body(<<"r">>, <<" ", "b", " ">>, <<"1">>),
     Body(Missing, <<"b">>, <<"1">>),
     Body(<<"r">>, <<>>, <<"1">>),
     Body(<<"r">>, <<"b">>, <<" ">>)}

\* A scan id no submission produces.
UnknownId == <<"x">>

VARIABLES
    now,            \* the wall clock, in whole seconds
    request,        \* the request the server is handling or has just answered
    scan_data,      \* _handle_scan_result's copy of the entry, lock released
    response,       \* the response the server has just written, if any
    returned,       \* the scan ids of the successful submit responses, in order
    active_scans,   \* the job table: scan id -> the dict stored under it
    dicts,          \* the entry dicts, by the thread that created them
    threads,        \* the background threads: arguments and position
    procs,          \* the scan script process of each thread
    installed,      \* the tools found on the search path
    config,         \* the build_prerequisites of the loaded configuration
    remote,         \* the marker files at the top of the repository's branch
    workdirs,       \* the working directories on disk: path -> files in it
    access          \* what the step just taken did to the job table and to
                    \* the script's pipe, each with whether scan_lock was held

vars == <<now, request, scan_data, response, returned, active_scans, dicts,
          threads, procs, installed, config, remote, workdirs, access>>

Threads == 1 .. Len(threads)

\* The entry stored under a scan id.
Entry(id) == dicts[active_scans[id]]

Terminal == {"completed", "failed", "error"}

\* --------------------------------------------------------- the job table
\* active_scans[scan_id] = {...}: store a new dict under the key.
Store(table, id, ref) ==
    [k \in DOMAIN table \cup {id} |-> IF k = id THEN ref ELSE table[k]]

\* Is dict r the one a store under id replaces?
Replaced(r, id) == id \in DOMAIN active_scans /\ active_scans[id] = r

\* Does the status handler's copy share dict r's output list?
Held(r) == scan_data # NoData /\ scan_data.output = r

\* Is dict r stored in the job table?
Stored(r) == \E id \in DOMAIN active_scans : active_scans[id] = r

\* server.py:201-205, the dict a scan thread stores on entry.
NewDict ==
    [status |-> "running", output |-> <<>>, start_time |-> Some(isoformat),
     end_time |-> None, return_code |-> None]

\* An operation done inside a `with scan_lock` block, and one done outside.
Locked(op) == [op |-> op, scan_lock |-> TRUE]
Unlocked(op) == [op |-> op, scan_lock |-> FALSE]

\* ------------------------------------------------------------ the server
\* server.py:165, the scan id of a submission.
scan_id_of(repo_name, branch_name) ==
    repo_name \o <<"_">> \o branch_name \o <<"_">> \o str(now)

\* A validation that forgets release_version.
all_but_version(repo_name, branch_name, release_version) ==
    /\ repo_name # <<>>
    /\ branch_name # <<>>

\* server.py:160, all([repo_name, branch_name, release_version]).
all_fields(repo_name, branch_name, release_version) ==
    /\ repo_name # <<>>
    /\ branch_name # <<>>
    /\ release_version # <<>>

\* Would _handle_scan accept this body?
Accepted(body) ==
    /\ body # BadJson
    /\ all_fields(strip(get(body, "repository_name")),
                  strip(get(body, "branch_name")),
                  strip(get(body, "release_version")))

error_response(message) ==
    [code |-> 400, status |-> "error", message |-> message]

\* A step of a scan thread or of the clock: the response written in the last
\* step has gone out, and a request that was answered is finished.
Quiet ==
    /\ response' = NoResponse
    /\ request' = IF scan_data = NoData THEN NoRequest ELSE request

\* Is the server free to take a request?  HTTPServer handles one at a time.
Idle == scan_data = NoData

\* do_POST /api/scan: _handle_scan.
HandleScan(body) ==
    /\ Idle
    /\ Accepted(body) => Len(threads) < MaxScans
    /\ request' = [op |-> "POST /api/scan", body |-> body]
    /\ IF body = BadJson
       THEN /\ response' = error_response("Invalid JSON data")
            /\ UNCHANGED <<returned, threads, procs, dicts>>
       ELSE LET repo_name == strip(get(body, "repository_name"))
                branch_name == strip(get(body, "branch_name"))
                release_version == strip(get(body, "release_version"))
                scan_id == scan_id_of(repo_name, branch_name)
            IN  IF ~all_fields(repo_name, branch_name, release_version)
                THEN /\ response' = error_response("All fields are required")
                     /\ UNCHANGED <<returned, threads, procs, dicts>>
                ELSE /\ threads' = Append(threads,
                            [scan_id |-> scan_id, repo_name |-> repo_name,
                             branch_name |-> branch_name,
                             release_version |-> release_version, pc |-> "start"])
                     /\ procs' = Append(procs, NoProc)
                     /\ dicts' = Append(dicts, NoDict)
                     /\ response' = [code |-> 200, status |-> "success",
                                     message |-> "Scan started successfully",
                                     scan_id |-> scan_id]
                     /\ returned' = Append(returned, scan_id)
    /\ access' = <<>>
    /\ UNCHANGED <<now, scan_data, active_scans, installed, config, remote, workdirs>>

\* do_GET /api/scan/<id>: _handle_scan_result, the part under scan_lock.
\* dict.copy() is shallow: the copy shares the entry's output list.
HandleScanResult(scan_id) ==
    /\ Idle
    /\ request' = [op |-> "GET /api/scan/", scan_id |-> scan_id]
    /\ IF scan_id \notin DOMAIN active_scans
       THEN /\ response' = [code |-> 404, status |-> "error",
                            message |-> "Scan ID not found", scan_id |-> scan_id]
            /\ UNCHANGED scan_data
            /\ access' = <<Locked("in")>>
       ELSE /\ access' = <<Locked("in"), Locked("copy")>>
            /\ scan_data' =
                 [status |-> Entry(scan_id).status,
                  output |-> active_scans[scan_id],
                  start_time |-> Entry(scan_id).start_time,
                  end_time |-> Entry(scan_id).end_time,
                  return_code |-> Entry(scan_id).return_code]
            /\ response' = NoResponse
    /\ UNCHANGED <<now, returned, active_scans, dicts, threads, procs, installed,
                   config, remote, workdirs>>

\* _handle_scan_result after the lock is released: the response is built and
\* serialized from the copy, reading the shared output list as it is now.
\* The copy is dropped, and with it a replaced dict it kept alive.
HandleScanResultRespond ==
    /\ scan_data # NoData
    /\ response' = [code |-> 200, status |-> "success",
                    scan_id |-> request.scan_id,
                    scan_status |-> scan_data.status,
                    output |-> dicts[scan_data.output].output,
                    start_time |-> scan_data.start_time,
                    end_time |-> scan_data.end_time,
                    return_code |-> scan_data.return_code]
    /\ scan_data' = NoData
    /\ access' = <<Unlocked("output")>>
    /\ dicts' = [dicts EXCEPT ![scan_data.output] =
                    IF Stored(scan_data.output) THEN @ ELSE NoDict]
    /\ UNCHANGED <<now, request, returned, active_scans, threads, procs, installed,
                   config, remote, workdirs>>

\* do_GET /api/status: _handle_status.
HandleStatus ==
    /\ Idle
    /\ request' = [op |-> "GET /api/status"]
    /\ response' = [code |-> 200, status |-> "running",
                    active_scans |-> Cardinality(DOMAIN active_scans)]
    /\ access' = <<Unlocked("len")>>
    /\ UNCHANGED <<now, scan_data, returned, active_scans, dicts, threads, procs,
                   installed, config, remote, workdirs>>

\* ------------------------------------------------------- the scan script
\* The exit codes an external command may end with.
ExitCodes == {0, 2}

Tools == {"git", "sonar-scanner", "build-wrapper-linux-x86-64"}

\* run_sonar_scan.py:133-141, the marker files in the order they are tried.
build_files ==
    << <<"pom.xml", "maven", "mvn clean install">>,
       <<"build.gradle", "gradle", "./gradlew build">>,
       <<"build.gradle.kts", "gradle", "./gradlew build">>,
       <<"CMakeLists.txt", "cmake", "cmake . && make">>,
       <<"Makefile", "make", "make">>,
       <<"package.json", "npm", "npm install && npm run build">>,
       <<"setup.py", "python", "python setup.py build">> >>

\* run_sonar_scan.py:36-44, the build_prerequisites of the default
\* configuration.
DefaultPrerequisites ==
    [k \in {"global", "maven", "gradle", "cmake", "make", "npm", "python"} |-> <<>>]

\* The build_prerequisites of a config.json: dict.update replaces the
\* default dict whole.
UserPrerequisites ==
    [k \in {"global", "maven"} |->
        IF k = "global" THEN <<"export X=1">> ELSE <<"echo maven">>]

\* Where the script runs: the configuration it loads, and the marker files
\* at the top of the repository's branch.
Environments ==
    { <<DefaultPrerequisites, {}>>,
      <<UserPrerequisites, {"pom.xml", "Makefile"}>> }

\* run_sonar_scan.py:24, the working directory of a run.
temp_dir_of(repo_name, branch_name) ==
    repo_name \o <<"_">> \o branch_name \o <<"_">> \o str(now)

\* Path.exists() of a file of a working directory.
exists(dir, file) == dir \in DOMAIN workdirs /\ file \in workdirs[dir]

\* run_sonar_scan.py:143-149, the first marker file that exists decides.
RECURSIVE detect_from(_, _)
detect_from(dir, i) ==
    IF i > Len(build_files) THEN <<"none", "none">>
    ELSE IF exists(dir, build_files[i][1])
         THEN <<build_files[i][2], build_files[i][3]>>
         ELSE detect_from(dir, i + 1)

detect_build_system(dir) == detect_from(dir, 1)

\* prerequisites.get(key, [])
prereqs_get(key) == IF key \in DOMAIN config THEN config[key] ELSE <<>>

\* A resolution that puts the system prerequisites first.
system_then_global(build_system) == prereqs_get(build_system) \o prereqs_get("global")

\* run_sonar_scan.py:157-160 and 196-199, global then system prerequisites.
all_prereqs(build_system) == prereqs_get("global") \o prereqs_get(build_system)

Line(step, detail) == [step |-> step, detail |-> detail]

\* A spawned external command and what it exited with (run_command).
Command(tool, args, returncode) ==
    [tool |-> tool, args |-> args, returncode |-> returncode]

\* The script process as SonarScanRunner.__init__ leaves it.
NewProc(repo_name, branch_name) ==
    [stage |-> "check", temp_dir |-> temp_dir_of(repo_name, branch_name),
     build_system |-> "none", build_cmd |-> "none", cmds |-> <<>>,
     stdout |-> <<>>, returncode |-> None, raised |-> FALSE]

\* sys.exit(exit_code): of a process that exited, its exit code is left, and
\* whether run's except clause (run_sonar_scan.py:303-307) printed a fault.
Exited(proc) ==
    [stage |-> "exit", stdout |-> <<>>, returncode |-> proc.returncode,
     raised |-> proc.raised]

\* A `return 1` that leaves run without its finally clause.
ExitAtOnce(proc) == Exited([proc EXCEPT !.returncode = Some(1)])

\* `return 1`: on to the finally clause.
Abort(proc) == [proc EXCEPT !.stage = "cleanup", !.returncode = Some(1)]

\* run_sonar_scan.py:303-307, an exception caught in run: the fault is
\* printed and run returns 1.
Raise(proc) == [Abort(proc) EXCEPT !.raised = TRUE]

\* ------------------------------------------------------ the scan threads
\* A line read from the script's pipe, and the line the handler appends.
ScriptLine == "line"
ErrorLine == "Error: "

\* server.py:225, active_scans[scan_id]['output'].append(line), under scan_lock.
AppendOutput(id, line) ==
    [dicts EXCEPT ![active_scans[id]].output = Append(@, line)]

\* One step of thread t's script: the process moves to proc, the disk to
\* disk, and the line it prints is read and stored by the thread.
ScriptStep(t, proc, disk, line) ==
    /\ procs' = [procs EXCEPT ![t] = [proc EXCEPT !.stdout = Append(@, line)]]
    /\ workdirs' = disk
    /\ dicts' = AppendOutput(threads[t].scan_id, ScriptLine)
    /\ access' = <<Unlocked("readline"), Locked("append")>>
    /\ Quiet
    /\ UNCHANGED <<now, scan_data, returned, active_scans,
                   threads, installed, config, remote>>

Running(t, stage) ==
    /\ threads[t].pc = "reading"
    /\ procs[t].stage = stage

\* mkdir(parents=True, exist_ok=True)
mkdir(dir) ==
    [d \in DOMAIN workdirs \cup {dir} |-> IF d \in DOMAIN workdirs THEN workdirs[d] ELSE {}]

\* shutil.rmtree
rmtree(dir) == [d \in DOMAIN workdirs \ {dir} |-> workdirs[d]]

WriteFiles(disk, dir, files) == [disk EXCEPT ![dir] = @ \cup files]

\* server.py:200-205, _execute_scan stores the entry of its scan; the dict
\* it replaces, if any, is garbage once no copy shares its list.
Register(t) ==
    /\ threads[t].pc = "start"
    /\ active_scans' = Store(active_scans, threads[t].scan_id, t)
    /\ dicts' = [r \in DOMAIN dicts |->
                   IF r = t THEN NewDict
                   ELSE IF Replaced(r, threads[t].scan_id) /\ ~Held(r) THEN NoDict
                   ELSE dicts[r]]
    /\ threads' = [threads EXCEPT ![t].pc = "popen"]
    /\ access' = <<Locked("store")>>
    /\ Quiet
    /\ UNCHANGED <<now, scan_data, returned, procs, installed,
                   config, remote, workdirs>>

\* server.py:213-219, the script is spawned; its __init__ names the
\* working directory after the second it starts in.
Popen(t) ==
    /\ threads[t].pc = "popen"
    /\ procs' = [procs EXCEPT ![t] = NewProc(threads[t].repo_name, threads[t].branch_name)]
    /\ threads' = [threads EXCEPT ![t].pc = "reading"]
    /\ access' = <<>>
    /\ Quiet
    /\ UNCHANGED <<now, scan_data, returned, active_scans, dicts,
                   installed, config, remote, workdirs>>

\* server.py:237-241, subprocess.Popen raises (no process, no memory): the
\* handler marks the entry and appends the error.
PopenRaises(t) ==
    /\ threads[t].pc = "popen"
    /\ dicts' = [dicts EXCEPT
                   ![active_scans[threads[t].scan_id]].status = "error",
                   ![active_scans[threads[t].scan_id]].output =
                       Append(@, ErrorLine)]
    /\ threads' = [threads EXCEPT ![t].pc = "done"]
    /\ access' = <<Locked("update"), Locked("append")>>
    /\ Quiet
    /\ UNCHANGED <<now, scan_data, returned, active_scans, procs,
                   installed, config, remote, workdirs>>

\* A tool check whose result run ignores.
CheckIgnored(t) ==
    /\ Running(t, "check")
    /\ ScriptStep(t, [procs[t] EXCEPT !.stage = "clone"], workdirs,
                  Line("check", IF Tools \subseteq installed THEN <<"ok">> ELSE <<"missing">>))

\* run_sonar_scan.py:83-109 and 273-274.
CheckPrerequisites(t) ==
    /\ Running(t, "check")
    /\ IF Tools \subseteq installed
       THEN ScriptStep(t, [procs[t] EXCEPT !.stage = "clone"], workdirs,
                       Line("check", <<"ok">>))
       ELSE ScriptStep(t, Abort(procs[t]), workdirs, Line("check", <<"missing">>))

\* run_sonar_scan.py:111-127 and 277-278.
CloneRepository(t) ==
    /\ Running(t, "clone")
    /\ LET dir == procs[t].temp_dir
           made == mkdir(dir)
       IN  \/ \* mkdir raises
              ScriptStep(t, Raise(procs[t]), workdirs, Line("FATAL ERROR", <<"clone">>))
           \/ \E e \in ExitCodes :
                 \* git refuses a directory that is not empty
                 /\ made[dir] # {} => e # 0
                 /\ LET ran == [procs[t] EXCEPT
                                   !.cmds = Append(@, Command("git", <<"clone">>, e))]
                    IN  IF e # 0
                        THEN ScriptStep(t, Abort(ran), made, Line("clone", <<"failed">>))
                        ELSE ScriptStep(t, [ran EXCEPT !.stage = "detect"],
                                        WriteFiles(made, dir, remote),
                                        Line("clone", <<"ok">>))

\* run_sonar_scan.py:129-149 and 281.
DetectBuildSystem(t) ==
    /\ Running(t, "detect")
    /\ LET found == detect_build_system(procs[t].temp_dir)
       IN  ScriptStep(t, [procs[t] EXCEPT
                            !.build_system = found[1], !.build_cmd = found[2],
                            !.stage = IF found[1] # "none" THEN "show" ELSE "scan"],
                      workdirs, Line("detect", <<found[1]>>))

\* run_sonar_scan.py:151-183 and 284-286.
ShowPrerequisites(t) ==
    /\ Running(t, "show")
    /\ ScriptStep(t, [procs[t] EXCEPT !.stage = "build"], workdirs,
                  Line("prerequisites", all_prereqs(procs[t].build_system)))

\* run_sonar_scan.py:185-215 and 289-291: the prerequisites and the wrapped
\* build command are one shell command; a non-zero exit is only a warning.
BuildWithWrapper(t) ==
    /\ Running(t, "build")
    /\ LET dir == procs[t].temp_dir
           chain == all_prereqs(procs[t].build_system)
                      \o <<"build-wrapper-linux-x86-64", procs[t].build_cmd>>
       IN  IF dir \notin DOMAIN workdirs
           THEN \* Popen raises: the working directory is gone
                ScriptStep(t, Raise(procs[t]), workdirs, Line("FATAL ERROR", <<"build">>))
           ELSE \E e \in ExitCodes, wrapped \in BOOLEAN :
                   \* the wrapper runs unless a prerequisite before it failed
                   /\ e = 0 => wrapped
                   /\ all_prereqs(procs[t].build_system) = <<>> => wrapped
                   /\ ScriptStep(t,
                         [procs[t] EXCEPT
                            !.cmds = Append(@, Command("sh", chain, e)),
                            !.stage = "scan"],
                         IF wrapped THEN WriteFiles(workdirs, dir, {"bw-output"})
                                    ELSE workdirs,
                         Line("build", IF e = 0 THEN <<"ok">> ELSE <<"warning">>))

\* run_sonar_scan.py:217-247 and 294-301.
RunSonarScanner(t) ==
    /\ Running(t, "scan")
    /\ LET dir == procs[t].temp_dir
           args == IF exists(dir, "bw-output")
                   THEN <<"-Dsonar.cfamily.build-wrapper-output">> ELSE <<>>
       IN  IF dir \notin DOMAIN workdirs
           THEN ScriptStep(t, Raise(procs[t]), workdirs, Line("FATAL ERROR", <<"scan">>))
           ELSE \E e \in ExitCodes :
                   LET ran == [procs[t] EXCEPT
                                 !.cmds = Append(@, Command("sonar-scanner", args, e))]
                   IN  IF e # 0
                       THEN ScriptStep(t, Abort(ran), workdirs, Line("scan", <<"failed">>))
                       ELSE ScriptStep(t, [ran EXCEPT !.stage = "cleanup",
                                                      !.returncode = Some(0)],
                                       workdirs, Line("scan", <<"ok">>))

\* run_sonar_scan.py:249-258 and 309-311, then sys.exit(exit_code).
Cleanup(t) ==
    /\ Running(t, "cleanup")
    /\ LET dir == procs[t].temp_dir
           exited == Exited(procs[t])
       IN  IF dir \in DOMAIN workdirs
           THEN \/ ScriptStep(t, exited, rmtree(dir), Line("cleanup", <<"removed">>))
                \/ \* rmtree raises
                   ScriptStep(t, exited, workdirs, Line("cleanup", <<"warning">>))
           ELSE ScriptStep(t, exited, workdirs, Line("cleanup", <<>>))

\* A final update that ignores the exit code.
always_completed(returncode) == "completed"

\* A final update that leaves the entry running.
still_running(returncode) == "running"

\* server.py:231, 'completed' if process.returncode == 0 else 'failed'.
final_status(returncode) == IF returncode = Some(0) THEN "completed" ELSE "failed"

\* server.py:222-233, end of file on the pipe, process.wait(), and the final
\* update under scan_lock.
Finish(t) ==
    /\ Running(t, "exit")
    /\ dicts' = [dicts EXCEPT
                   ![active_scans[threads[t].scan_id]].status =
                       final_status(procs[t].returncode),
                   ![active_scans[threads[t].scan_id]].return_code = procs[t].returncode,
                   ![active_scans[threads[t].scan_id]].end_time = Some(isoformat)]
    /\ procs' = [procs EXCEPT ![t] = Reaped]
    /\ threads' = [threads EXCEPT ![t].pc = "done"]
    /\ access' = <<Unlocked("readline"), Locked("update")>>
    /\ Quiet
    /\ UNCHANGED <<now, scan_data, returned, active_scans,
                   installed, config, remote, workdirs>>

\* time.time() and datetime.now() move on.
Tick ==
    /\ now < MaxTime
    /\ now' = now + 1
    /\ access' = <<>>
    /\ Quiet
    /\ UNCHANGED <<scan_data, returned, active_scans, dicts,
                   threads, procs, installed, config, remote, workdirs>>

\* ------------------------------------------------------ the specification
Init ==
    /\ now = 0
    /\ request = NoRequest
    /\ scan_data = NoData
    /\ response = NoResponse
    /\ returned = <<>>
    /\ active_scans = [id \in {} |-> 0]
    /\ dicts = <<>>
    /\ threads = <<>>
    /\ procs = <<>>
    /\ installed \in {Tools} \cup {Tools \ {tool} : tool \in Tools}
    /\ \E env \in Environments :
          /\ config = env[1]
          /\ remote = env[2]
    /\ workdirs = [d \in {} |-> {}]
    /\ access = <<>>

Next ==
    \/ \E body \in ScanBodies : HandleScan(body)
    \/ \E scan_id \in {returned[i] : i \in DOMAIN returned} \cup {UnknownId} :
          HandleScanResult(scan_id)
    \/ HandleScanResultRespond
    \/ HandleStatus
    \/ Tick
    \/ \E t \in Threads :
          \/ Register(t)
          \/ Popen(t)
          \/ PopenRaises(t)
          \/ CheckPrerequisites(t)
          \/ CloneRepository(t)
          \/ DetectBuildSystem(t)
          \/ ShowPrerequisites(t)
          \/ BuildWithWrapper(t)
          \/ RunSonarScanner(t)
          \/ Cleanup(t)
          \/ Finish(t)

Spec == Init /\ [][Next]_vars

\* A step of thread t: of _execute_scan or of the script it reads from.
ThreadStep(t) ==
    \/ Register(t)
    \/ Popen(t)
    \/ PopenRaises(t)
    \/ CheckPrerequisites(t)
    \/ CloneRepository(t)
    \/ DetectBuildSystem(t)
    \/ ShowPrerequisites(t)
    \/ BuildWithWrapper(t)
    \/ RunSonarScanner(t)
    \/ Cleanup(t)
    \/ Finish(t)

\* server.py:168-173, a submission that dispatches a thread.
Dispatch == \E body \in ScanBodies : Accepted(body) /\ HandleScan(body)

\* The jobs on their own: submissions are accepted, time passes, threads and
\* scripts run.  Polls and rejected submissions write nothing a thread reads
\* and are left to Next.
JobsNext ==
    \/ Dispatch
    \/ Tick
    \/ \E t \in Threads : ThreadStep(t)

\* Threads are scheduled fairly and every external command exits: a thread
\* that can take a step eventually takes one.
FairSpec ==
    /\ Init
    /\ [][JobsNext]_vars
    /\ \A t \in 1..MaxScans : WF_vars(t \in Threads /\ ThreadStep(t))

\* The build_prerequisites a configuration may hold: the default, a
\* config.json with some keys, some of them with more than one command.
PrerequisiteConfigs ==
    { DefaultPrerequisites,
      UserPrerequisites,
      [k \in {"global"} |-> <<"export X=1", "export Y=2">>],
      [k \in {"maven", "make"} |->
          IF k = "maven" THEN <<"echo maven", "echo again">> ELSE <<"echo make">>] }

\* The marker files a repository may have at its top.
Checkouts ==
    { {}, {"pom.xml"}, {"build.gradle", "pom.xml"}, {"build.gradle.kts"},
      {"CMakeLists.txt", "Makefile"}, {"Makefile"}, {"package.json"}, {"setup.py"} }

\* One job, with all tools found, under every configuration and checkout.
OneJobInit ==
    /\ now = 0
    /\ request = NoRequest
    /\ scan_data = NoData
    /\ response = NoResponse
    /\ returned = <<>>
    /\ active_scans = [id \in {} |-> 0]
    /\ dicts = <<>>
    /\ threads = <<>>
    /\ procs = <<>>
    /\ installed = Tools
    /\ config \in PrerequisiteConfigs
    /\ remote \in Checkouts
    /\ workdirs = [d \in {} |-> {}]
    /\ access = <<>>

OneJobNext ==
    \/ threads = <<>> /\ Dispatch
    \/ Tick
    \/ \E t \in Threads : ThreadStep(t)

OneJobSpec == OneJobInit /\ [][OneJobNext]_vars

\* ------------------------------------------------------------ properties
Range(seq) == {seq[i] : i \in DOMAIN seq}

\* A response of _handle_scan_result that reports an entry.
IsResult(resp) == resp.code = 200 /\ "scan_status" \in DOMAIN resp

\* C1: the scan ids returned to any two accepted submissions differ, also
\* when both are posted in the same second for the same repository and
\* branch.
ScanIdsUnique ==
    \A i, j \in DOMAIN returned : i # j => returned[i] # returned[j]

\* C2: every scan id already returned to a client is a key of active_scans,
\* so that no status query for it is answered not-found.
ReturnedIdsRegistered ==
    \A i \in DOMAIN returned : returned[i] \in DOMAIN active_scans

\* The moves of the lifecycle queued -> running -> completed | failed | error.
LifecycleMove(old, new) ==
    \/ old = new
    \/ old = "queued" /\ new = "running"
    \/ old = "running" /\ new \in Terminal

\* C3: the states stored for a scan id follow queued -> running ->
\* {completed, failed, error}: an entry is created queued, never moves
\* backward and is never terminal without having been running.
LifecycleOrder ==
    [][\A id \in DOMAIN active_scans' :
          IF id \in DOMAIN active_scans
          THEN LifecycleMove(Entry(id).status, Entry(id)'.status)
          ELSE Entry(id)'.status = "queued"]_vars

\* C4: terminal states are absorbing: once an entry is completed, failed or
\* error, no step of any thread gives it another state.
TerminalAbsorbing ==
    [][\A id \in DOMAIN active_scans :
          Entry(id).status \in Terminal => Entry(id)'.status = Entry(id).status]_vars

\* C5: the output stored for a scan id only grows at its end: what a poll
\* returns is a prefix of what any later poll returns.
OutputAppendOnly ==
    [][\A id \in DOMAIN active_scans :
          IsPrefix(Entry(id).output, Entry(id)'.output)]_vars

\* C6: an entry has an end_time exactly when its state is terminal; a job in
\* error has one.
EndTimeIffTerminal ==
    \A id \in DOMAIN active_scans :
        Entry(id).end_time # None <=> Entry(id).status \in Terminal

\* C7: an entry has a return_code only in state completed or failed: none
\* while running, none in error.
ReturnCodeOnlyCompletedOrFailed ==
    \A id \in DOMAIN active_scans :
        Entry(id).return_code # None => Entry(id).status \in {"completed", "failed"}

\* The handler's error line enters an output in the step that ends "running",
\* and no dict is ever set back to running: no entry is running with it.
RunningEntryHasNoErrorLine ==
    \A id \in DOMAIN active_scans :
        Entry(id).status = "running" => ErrorLine \notin Range(Entry(id).output)

\* C8: every status response is a snapshot of the entry at one moment, taken
\* through a copy that shares nothing with the entry.  No entry is ever
\* running with the handler's error line in its output
\* (RunningEntryHasNoErrorLine), so no snapshot reports the two together.
ResponseIsSnapshot ==
    (IsResult(response) /\ response.scan_status = "running")
        => ErrorLine \notin Range(response.output)

\* A field that is absent, empty or blank.
Blank(s) == \A i \in DOMAIN s : s[i] \in Whitespace
Unfilled(body, key) == body[key] = Missing \/ Blank(body[key])

\* A JSON body with repository, branch or version missing or empty after
\* trimming.
Incomplete(body) ==
    /\ body # BadJson
    /\ \E key \in {"repository_name", "branch_name", "release_version"} :
          Unfilled(body, key)

\* C9: a submission with repository, branch or version missing or empty
\* after trimming is answered with a client error and nothing else happens:
\* no scan id, no thread, no entry, no process, no working directory.
RejectedWithoutEffect ==
    [][(request'.op = "POST /api/scan" /\ Incomplete(request'.body))
          => /\ response'.code = 400
             /\ "scan_id" \notin DOMAIN response'
             /\ UNCHANGED <<returned, threads, active_scans, dicts, procs, workdirs>>]_vars

\* An incomplete submission has just been answered.
RejectedSubmission ==
    /\ request.op = "POST /api/scan"
    /\ Incomplete(request.body)
    /\ response = error_response("All fields are required")

\* Did the script of thread t spawn the tool and see it exit with returncode?
Ran(proc, tool, returncode) ==
    \E i \in DOMAIN proc.cmds :
        proc.cmds[i].tool = tool /\ proc.cmds[i].returncode = returncode

AllSucceeded(proc) ==
    /\ Tools \subseteq installed
    /\ Ran(proc, "git", 0)
    /\ Ran(proc, "sonar-scanner", 0)

SomeFatal(proc) ==
    \E i \in DOMAIN proc.cmds :
        /\ proc.cmds[i].tool \in {"git", "sonar-scanner"}
        /\ proc.cmds[i].returncode # 0

\* C10: a job ends completed exactly when the tool check passed and the
\* clone and the scanner exited 0, whatever the build did; a non-zero clone
\* or scanner exit ends it failed with an exit code recorded.  The script
\* decides its exit code before cleanup, exits with it, and the thread
\* turns it into the entry's state.
OutcomeFollowsStages ==
    [][\A t \in Threads :
          /\ procs'[t].stage = "cleanup" =>
                /\ procs'[t].returncode = Some(0) <=> AllSucceeded(procs'[t])
                /\ SomeFatal(procs'[t]) => procs'[t].returncode = Some(1)
          /\ (procs[t].stage = "cleanup" /\ procs'[t].stage = "exit") =>
                procs'[t].returncode = procs[t].returncode
          /\ (procs[t].stage = "exit" /\ procs'[t] = Reaped) =>
                LET entry == Entry(threads[t].scan_id)'
                IN  /\ entry.status = "completed" <=> procs[t].returncode = Some(0)
                    /\ entry.status # "completed" =>
                          entry.status = "failed" /\ entry.return_code = Some(1)]_vars

\* A job has ended completed, exit code 0 recorded.
JobCompleted ==
    \E t \in Threads :
        /\ threads[t].pc = "done"
        /\ procs[t] = Reaped
        /\ Entry(threads[t].scan_id).status = "completed"
        /\ Entry(threads[t].scan_id).return_code = Some(0)

\* The entry that thread t's writes go to.
EntryOf(t) == Entry(threads[t].scan_id)

\* Thread t takes the final update of _execute_scan in this step.
Finishing(t) == procs[t].stage = "exit" /\ procs'[t] = Reaped

\* With a tool missing no script ever spawns a command.
MissingToolSpawnsNothing ==
    ~(Tools \subseteq installed) =>
        \A t \in Threads : "cmds" \in DOMAIN procs[t] => procs[t].cmds = <<>>

\* C11: when one of the three required tools is not on the search path, the
\* job ends in state error, not failed, and no clone, build or analysis
\* command is spawned for it.
MissingToolEndsInError ==
    [][\A t \in Threads :
          ~(Tools \subseteq installed) =>
              /\ "cmds" \in DOMAIN procs'[t] => procs'[t].cmds = <<>>
              /\ Finishing(t) => EntryOf(t)'.status = "error"]_vars

\* What the claim asks of the entry of a job that met an exception.
EndedInError(entry) ==
    /\ entry.status = "error"
    /\ entry.return_code = None
    /\ ErrorLine \in Range(entry.output)

\* C12: an unexpected exception during a job's orchestration, in the thread
\* (Popen raises) or at any stage of the script (run's except clause), ends
\* the job in state error with no exit code and the error appended to its
\* output.
FaultEndsInError ==
    [][\A t \in Threads :
          /\ (Finishing(t) /\ procs[t].raised) => EndedInError(EntryOf(t)')
          /\ (threads[t].pc = "popen" /\ threads'[t].pc = "done") =>
                 EndedInError(EntryOf(t)')]_vars

\* The script of thread t is running: it has a working directory.
Working(t) == "temp_dir" \in DOMAIN procs[t]

\* The stages of the script are over, whatever their order was.
StagesOver(t) == Working(t) /\ procs[t].stage = "cleanup"

Invoked(proc, tool) == \E e \in ExitCodes : Ran(proc, tool, e)

Printed(proc, step) == \E i \in DOMAIN proc.stdout : proc.stdout[i].step = step

\* C13: for a job whose build system was detected, a non-zero exit of the
\* instrumented build is not fatal: the scanner is still invoked afterwards
\* and its exit code alone decides how the job ends.
BuildFailureNotFatal ==
    \A t \in Threads :
        (StagesOver(t) /\ \E e \in ExitCodes \ {0} : Ran(procs[t], "sh", e)) =>
            /\ Invoked(procs[t], "sonar-scanner")
            /\ procs[t].returncode = Some(0) <=> Ran(procs[t], "sonar-scanner", 0)

\* Detection found no marker file.
DetectedNothing(proc) ==
    \E i \in DOMAIN proc.stdout : proc.stdout[i] = Line("detect", <<"none">>)

\* C14: when detection finds no marker file, neither the prerequisites nor
\* the build wrapper are invoked, the scanner is still invoked, and the job
\* is completed if the scanner exits 0.
UnknownBuildSkipsToScanner ==
    \A t \in Threads :
        (StagesOver(t) /\ DetectedNothing(procs[t])) =>
            /\ ~Invoked(procs[t], "sh")
            /\ ~Printed(procs[t], "prerequisites")
            /\ Invoked(procs[t], "sonar-scanner")
            /\ Ran(procs[t], "sonar-scanner", 0) => procs[t].returncode = Some(0)

\* C15: no two jobs use the same working directory, also when they are for
\* the same repository and branch and start within the same second.
WorkingDirectoriesDiffer ==
    \A t, u \in Threads :
        (t # u /\ Working(t) /\ Working(u)) => procs[t].temp_dir # procs[u].temp_dir

\* Thread t stores its entry in this step.
Registering(t) == threads[t].pc = "start" /\ threads'[t] # threads[t]

\* C16: registering a job under an identifier that is already a key of the
\* registry is rejected: the existing entry is left as it is and the job
\* does not go on to run.
DuplicateRegistrationRejected ==
    [][\A t \in Threads :
          (Registering(t) /\ threads[t].scan_id \in DOMAIN active_scans) =>
              /\ active_scans' = active_scans
              /\ EntryOf(t)' = EntryOf(t)
              /\ threads'[t].pc # "popen"]_vars

\* This step is a step of thread t's task or of its script.
StepOf(t) == threads'[t] # threads[t] \/ procs'[t] # procs[t]

\* Thread t has stored an entry for its job.
Registered(t) ==
    /\ threads[t].pc # "start"
    /\ threads[t].scan_id \in DOMAIN active_scans

\* C18: jobs are isolated: a step of one job's task, be it registration, an
\* output append, the final update or the error handling, leaves the entry
\* of every other submitted job as it is.
JobsIsolated ==
    [][\A t, u \in Threads :
          (t # u /\ StepOf(t) /\ Registered(u)) =>
              /\ threads[u].scan_id \in DOMAIN active_scans'
              /\ EntryOf(u)' = EntryOf(u)]_vars

\* The stages whose failure or exception run answers with `return 1`.
PipelineStages == {"check", "clone", "detect", "show", "build", "scan"}

\* C17: for every job whose pipeline started, cleanup is attempted exactly
\* once, after the last stage that ran, whichever stage failed or raised;
\* what cleanup itself does, failing included, changes neither the exit code
\* nor the state the job ends in.
CleanupExactlyOnce ==
    [][\A t \in Threads :
          /\ (Working(t) /\ procs'[t] # procs[t]) =>
                LET old == procs[t]
                    new == procs'[t]
                IN  /\ old.stage \in PipelineStages =>
                          /\ new.stage \in PipelineStages \cup {"cleanup"}
                          /\ ~Printed(new, "cleanup")
                    /\ old.stage = "cleanup" =>
                          /\ new.stage = "exit"
                          /\ new.returncode = old.returncode
                          /\ Len(new.stdout) = 1 /\ new.stdout[1].step = "cleanup"
          /\ Finishing(t) =>
                /\ Len(procs[t].stdout) = 1 /\ procs[t].stdout[1].step = "cleanup"
                /\ EntryOf(t)'.return_code = procs[t].returncode
                /\ EntryOf(t)'.status = "completed" <=> procs[t].returncode = Some(0)]_vars

\* A stage failed, the removal of the working directory failed too, and the
\* script exited with the exit code of the stage.
CleanupFailureSwallowed ==
    \E t \in Threads :
        /\ procs[t].stage = "exit"
        /\ procs[t].stdout = <<Line("cleanup", <<"warning">>)>>
        /\ procs[t].returncode = Some(1)

\* The place of a stage in run (run_sonar_scan.py:271-311).
StageRank(stage) ==
    CASE stage = "check" -> 1
      [] stage = "clone" -> 2
      [] stage = "detect" -> 3
      [] stage = "show" -> 4
      [] stage = "build" -> 5
      [] stage = "scan" -> 6
      [] stage = "cleanup" -> 7
      [] stage = "exit" -> 8

\* The stage that spawns a tool.
StageOfTool(tool) ==
    CASE tool = "git" -> "clone"
      [] tool = "sh" -> "build"
      [] tool = "sonar-scanner" -> "scan"

\* C19: within one job the stages run one after another in the order tool
\* check, clone, detection, prerequisite display, build, analysis, cleanup;
\* a step spawns at most one command and waits for its exit; the clone
\* starts only after the tool check passed, and detection, build and
\* analysis only after the clone exited 0.
StagesInOrder ==
    [][\A t \in Threads :
          (Working(t) /\ procs'[t] # procs[t]) =>
              LET old == procs[t]
                  new == procs'[t]
              IN  /\ StageRank(new.stage) > StageRank(old.stage)
                  /\ new.stage = "clone" =>
                        old.stage = "check" /\ Tools \subseteq installed
                  /\ new.stage \in {"detect", "show", "build", "scan"} =>
                        Ran(old, "git", 0) \/ (old.stage = "clone" /\ Ran(new, "git", 0))
                  /\ new.stage # "exit" =>
                        /\ IsPrefix(old.cmds, new.cmds)
                        /\ Len(new.cmds) <= Len(old.cmds) + 1
                        /\ Len(new.cmds) = Len(old.cmds) + 1 =>
                              LET cmd == new.cmds[Len(new.cmds)]
                              IN  /\ old.stage = StageOfTool(cmd.tool)
                                  /\ cmd.tool = "git" => Tools \subseteq installed
                                  /\ cmd.tool # "git" => Ran(old, "git", 0)]_vars

\* A script ran every stage: its three commands, in order, and cleanup next.
AllStagesRan ==
    \E t \in Threads :
        /\ StagesOver(t)
        /\ Len(procs[t].cmds) = 3
        /\ procs[t].cmds[1].tool = "git"
        /\ procs[t].cmds[2].tool = "sh"
        /\ procs[t].cmds[3].tool = "sonar-scanner"
        /\ \A step \in {"check", "clone", "detect", "prerequisites", "build", "scan"} :
              Printed(procs[t], step)

\* Every step of Next that FairSpec leaves out keeps the clock, the threads,
\* the processes, the disk and every entry of the registry as they are.
OtherStepsLeaveJobsAlone ==
    [][\/ JobsNext
       \/ /\ UNCHANGED <<now, returned, active_scans, threads, procs,
                         installed, config, remote, workdirs>>
          /\ \A id \in DOMAIN active_scans : Entry(id)' = Entry(id)]_vars

\* Thread t is over and its job is registered in a terminal state.
Ended(t) ==
    /\ t \in Threads
    /\ threads[t].pc = "done"
    /\ Registered(t)
    /\ EntryOf(t).status \in Terminal

\* C20: with fair scheduling and external commands that exit, every job
\* whose thread was dispatched eventually is in a terminal state, and no
\* key ever leaves the registry.
EveryJobEnds ==
    /\ \A t \in 1..MaxScans : (t \in Threads) ~> Ended(t)
    /\ [][DOMAIN active_scans \subseteq DOMAIN active_scans']_vars

\* A job has ended failed: its thread is over, its process reaped.
JobFailed ==
    \E t \in Threads :
        /\ Ended(t)
        /\ procs[t] = Reaped
        /\ EntryOf(t).status = "failed"

\* The operations on active_scans and on the fields of its entries.
TableOps == {"len", "in", "copy", "output", "store", "append", "update"}

\* C21: every read and write of the job table or of an entry's fields, by a
\* handler or by a scan thread, is done with scan_lock held, and the lock is
\* not held while a thread blocks reading the script's output.
LockDiscipline ==
    \A i \in DOMAIN access :
        /\ access[i].op \in TableOps => access[i].scan_lock
        /\ access[i].op = "readline" => ~access[i].scan_lock

\* The commands configured under a key of build_prerequisites, none if the
\* key is absent.
Configured(key) == IF key \in DOMAIN config THEN config[key] ELSE <<>>

\* list is the global commands, then those of the build system, each group
\* in configured order.
GlobalThenSystem(list, build_system) ==
    LET global == Configured("global")
        system == Configured(build_system)
    IN  /\ Len(list) = Len(global) + Len(system)
        /\ \A i \in DOMAIN global : list[i] = global[i]
        /\ \A i \in DOMAIN system : list[Len(global) + i] = system[i]

\* C22: for every detected build system and every configuration, the
\* resolved prerequisites are the global commands followed by the build
\* system's, in configured order, none if none are configured; the list
\* displayed is the list executed, and it is executed in one shell command,
\* in that order and before the wrapped build command.
PrerequisitesResolved ==
    \A t \in Threads :
        Working(t) =>
            LET proc == procs[t]
                shown == {i \in DOMAIN proc.stdout : proc.stdout[i].step = "prerequisites"}
                built == {i \in DOMAIN proc.cmds : proc.cmds[i].tool = "sh"}
            IN  /\ Cardinality(shown) <= 1 /\ Cardinality(built) <= 1
                /\ \A i \in shown :
                      GlobalThenSystem(proc.stdout[i].detail, proc.build_system)
                /\ \A i \in built :
                      LET chain == proc.cmds[i].args
                          list == SubSeq(chain, 1, Len(chain) - 2)
                      IN  /\ Len(chain) >= 2
                          /\ \E j \in shown : proc.stdout[j].detail = list
                          /\ chain[Len(chain) - 1] = "build-wrapper-linux-x86-64"
                          /\ chain[Len(chain)] = proc.build_cmd

\* A Maven project under {global: [export X=1], maven: [echo maven]}: the
\* list was displayed and then executed ahead of the wrapped build.
MavenPrerequisitesRan ==
    \E t \in Threads :
        /\ Working(t)
        /\ config = UserPrerequisites
        /\ procs[t].build_system = "maven"
        /\ \E i \in DOMAIN procs[t].stdout :
              procs[t].stdout[i] = Line("prerequisites", <<"export X=1", "echo maven">>)
        /\ \E i \in DOMAIN procs[t].cmds :
              procs[t].cmds[i].args = <<"export X=1", "echo maven",
                                        "build-wrapper-linux-x86-64", "mvn clean install">>
====
